---- MODULE Spec2Model ----
(***************************************************************************)
(* Model of the nflreadpy-supabase core:                                   *)
(*   - SupabaseClient.upload_dataframe (src/supabase_client/client.py),    *)
(*     the chunked batch uploader, as a state machine whose steps are the  *)
(*     loop iterations and the blocking round trips to the remote store    *)
(*     (Spec);                                                             *)
(*   - the constructor and query of the same class, with the remote table  *)
(*     the requests act on (ClientSpec);                                   *)
(*   - the prepare_* schema mappers of src/data_loader/*.py and            *)
(*     TeamDataLoader.load_team_stats, as operators over small tables,     *)
(*     applied by the actions of MapperSpec;                               *)
(*   - the team rankings of src/analytics/team_analytics.py                *)
(*     (AnalyticsSpec);                                                    *)
(*   - main of scripts/load_data.py (MainSpec) and the pagination loop of  *)
(*     scripts/test_passing_leaders.py (PageSpec);                         *)
(*   - two upload_dataframe runs racing on one table (RaceSpec);           *)
(*   - get_settings of src/utils/config.py and its use by the constructor  *)
(*     (SettingsSpec).                                                     *)
(***************************************************************************)
EXTENDS Integers, Sequences, FiniteSets, TLC

\* ------------------------------------------------------------------------
\* Bounds of the model
\* ------------------------------------------------------------------------
MaxRows == 5
MaxBatch == 3
MaxTableRows == 2
MaxArgs == 2
MaxReads == 3

\* default of the batch_size parameter
DefaultBatchSize == 1000

\* the spec's scenario: 2,500 rows uploaded with batch_size = 1000
ScenarioCase == [n |-> 2500, b |-> DefaultBatchSize]

\* batch_size is a plain int: 0 and a negative value are accepted by the
\* signature
BatchSizes == (-1)..MaxBatch

UploadInputs ==
    {[n |-> n, b |-> b] : n \in 0..MaxRows, b \in BatchSizes} \cup {ScenarioCase}

\* str(e) of the exception a failed chunk raised
ErrorMessages == {"duplicate key", "timeout"}

\* the messages of ErrorMessages that report an unreachable store
ConnectionErrors == {"timeout"}

\* what get_settings() / create_client() raise in the constructor
InitErrors == {"validation error", "invalid url"}

\* the non-key content of a row: two uploads of the same keys may differ in it
Versions == {1, 2}

\* a row of a prepared table: its primary key and its other columns
Row(k, v) == [key |-> k, val |-> v]

\* the most rows the remote store returns for one request; the scripts page
\* their reads by this size
RowCap == 1000

NoSummary == [total_rows |-> -1]

\* the environment: no Supabase variables, or one of two settings
EnvValues == {"unset", "https://a", "https://b"}

\* nothing cached / nothing returned yet
NoSettings == [none |-> TRUE]

\* get_settings raised (Settings() found a required variable missing)
SettingsError == [error |-> "validation error"]

NoClient == [none |-> TRUE]

NoTable == [none |-> TRUE]

NoRun == [none |-> TRUE]

\* the filters argument of query: None, or a dict of column -> value
NoFilters == [given |-> FALSE, eqs |-> {}]
Filters(eqs) == [given |-> TRUE, eqs |-> eqs]

FilterChoices ==
    {NoFilters, Filters({}), Filters({<<"key", 1>>}), Filters({<<"key", 0>>}),
     Filters({<<"val", 1>>}), Filters({<<"val", 2>>}),
     Filters({<<"key", 1>>, <<"val", 2>>})}

VARIABLES
    pc,          \* position of the current call on the client
    df,          \* the table handed to upload_dataframe
    batch_size,  \* the batch_size argument
    upsert,      \* the upsert argument
    total_rows,  \* len(df)
    records,     \* df.to_dicts()
    i,           \* loop variable of range(0, total_rows, batch_size)
    batch,       \* records[i : i + batch_size] of the current iteration
    uploaded,    \* running count of rows in acknowledged chunks
    errors,      \* list of {"batch": i, "error": str(e)}
    sent,        \* requests the remote store received in this call, in arrival order
    inflight,    \* requests issued and not yet answered
    outcomes,    \* answer of the remote store to each request of sent
    summary,     \* the returned dictionary
    phase,       \* position of a load step: "idle", "raw", "prepared", "reprepared"
    kind,        \* destination table of the load step
    raw,         \* the table the upstream provider returned
    prepared,    \* the mapper's output for raw (or the error it raised)
    again,       \* the mapper's output for its own output
    schedules,   \* the schedules table the provider returned to load_team_stats
    store,       \* the rows of the remote table, in the store's order
    storeBefore, \* store when the current upload_dataframe call began
    written,     \* for each request of sent: did the store write its rows?
    run,         \* number of upload_dataframe calls begun
    firstRun,    \* table, outcome and resulting store of the first call
    filters,     \* the filters argument of query
    data,        \* rows of the table query returned (response.data)
    failures,    \* exceptions raised to the current call by settings or store
    apc,         \* position of a TeamAnalytics ranking call
    which,       \* the ranking called: "offense" or "defense"
    metric,      \* the metric argument of the ranking call
    pbp,         \* the play_by_play rows the ranking call got from query
    ranking,     \* the rows the ranking call returned
    mpc,         \* position of main of scripts/load_data.py
    argv,        \* the --data-types arguments
    data_types,  \* the data types to load, after "all" is expanded
    nextStep,    \* number of the load step main looks at next
    ran,         \* the load steps main has run, with their outcome
    ppc,         \* position of the pagination loop of test_passing_leaders.py
    cap,         \* the remote store's single-request row cap during the loop
    matching,    \* the rows of the table that match the loop's query
    offset,      \* offset of the loop
    page,        \* result.data of the last request of the loop
    all_data,    \* all_data of the loop
    rpc,         \* per racing run: position of its upload_dataframe call
    rdf,         \* per racing run: its table
    rbatch,      \* per racing run: its batch_size
    ri,          \* per racing run: its loop variable i
    rstore,      \* the remote table the racing runs write to
    env,         \* SUPABASE_URL/KEY in the environment, or "unset"
    cache,       \* the value lru_cache holds for get_settings
    reads,       \* number of times Settings() read the environment
    loaded,      \* number of times Settings() was built from the environment
    got,         \* what the last get_settings call returned
    firstGot,    \* the first Settings instance a get_settings call returned
    made         \* the last SupabaseClient constructed: its arguments and url

anaVars == <<apc, which, metric, pbp, ranking>>

mainVars == <<mpc, argv, data_types, nextStep, ran>>

pageVars == <<ppc, cap, matching, offset, page, all_data>>

raceVars == <<rpc, rdf, rbatch, ri, rstore>>

cfgVars == <<env, cache, reads, loaded, got, firstGot, made>>

\* the variables outside the client and outside the load steps
restVars == <<anaVars, mainVars, pageVars, raceVars, cfgVars>>

clientVars == <<pc, df, batch_size, upsert, total_rows, records, i, batch,
                uploaded, errors, sent, inflight, outcomes, summary,
                store, storeBefore, written, run, firstRun, filters, data,
                failures>>

loadVars == <<phase, kind, raw, prepared, again, schedules>>

\* what a load step leaves alone
upVars == <<clientVars, restVars>>

\* what a call on the client leaves alone
mapVars == <<loadVars, restVars>>

\* what a ranking call leaves alone
notAna == <<clientVars, loadVars, mainVars, pageVars, raceVars, cfgVars>>

\* what main of scripts/load_data.py leaves alone in this model
notMain == <<clientVars, loadVars, anaVars, pageVars, raceVars, cfgVars>>

\* what the pagination loop leaves alone
notPage == <<clientVars, loadVars, anaVars, mainVars, raceVars, cfgVars>>

\* what two racing upload runs leave alone
notRace == <<clientVars, loadVars, anaVars, mainVars, pageVars, cfgVars>>

\* what get_settings and the constructor leave alone in the settings model
notCfg == <<clientVars, loadVars, anaVars, mainVars, pageVars, raceVars>>

qVars == <<filters, data>>

vars == <<pc, df, batch_size, upsert, total_rows, records, i, batch,
          uploaded, errors, sent, inflight, outcomes, summary,
          phase, kind, raw, prepared, again, schedules,
          store, storeBefore, written, run, firstRun, filters, data,
          failures, apc, which, metric, pbp, ranking,
          mpc, argv, data_types, nextStep, ran,
          ppc, cap, matching, offset, page, all_data,
          rpc, rdf, rbatch, ri, rstore,
          env, cache, reads, loaded, got, firstGot, made>>

\* ------------------------------------------------------------------------
\* Helpers of upload_dataframe
\* ------------------------------------------------------------------------
Min(a, b) == IF a <= b THEN a ELSE b

\* Python range(start, stop, step): is the value v still inside the range?
\* (step = 0 raises ValueError before the first iteration, see UploadCall)
RangeHasNext(v, stop, step) ==
    IF step > 0 THEN v < stop ELSE step < 0 /\ v > stop

NextOffset(v, step) == v + step

\* Python s[lo:hi] for 0 <= lo <= hi: the end is clamped to len(s)
Slice_Overlap(s, lo, hi) == SubSeq(s, lo + 1, Min(hi + 1, Len(s)))
Slice(s, lo, hi) == SubSeq(s, lo + 1, Min(hi, Len(s)))

\* uploaded += len(batch)
CountUploaded_BatchSize(u, b) == u + batch_size
CountUploaded(u, b) == u + Len(b)

\* errors.append({"batch": i, "error": str(e)})
ErrorEntry_ChunkNumber(off, e) == [batch |-> (off \div batch_size) + 1, error |-> e]
ErrorEntry(off, e) == [batch |-> off, error |-> e]

\* the returned dictionary
Summary_FailedRows(n, u, errs) ==
    [total_rows |-> n, uploaded |-> u, errors |-> n - u, error_details |-> errs]
Summary(n, u, errs) ==
    [total_rows |-> n, uploaded |-> u, errors |-> Len(errs), error_details |-> errs]

\* the request of one chunk: table(...).upsert(batch) or .insert(batch)
Request(off, rows, ups) ==
    [op |-> IF ups THEN "upsert" ELSE "insert", offset |-> off, rows |-> rows]

\* ------------------------------------------------------------------------
\* The remote table, as the requests of the client act on it
\* ------------------------------------------------------------------------
KeysOf(rows) == {rows[x].key : x \in DOMAIN rows}

RowWithKey(rows, k) == rows[CHOOSE x \in DOMAIN rows : rows[x].key = k]

\* upsert: a row whose key is stored replaces the stored row, any other row
\* is added
Upsert(st, rows) ==
    LET new == KeysOf(rows)
        old == KeysOf(st)
    IN [j \in 1..Len(st) |->
          IF st[j].key \in new THEN RowWithKey(rows, st[j].key) ELSE st[j]]
       \o SelectSeq(rows, LAMBDA r : r.key \notin old)

\* insert: the primary key constraint rejects a request with a stored key
Accepts(st, req) ==
    req.op = "upsert" \/ KeysOf(req.rows) \cap KeysOf(st) = {}

\* the effect of a chunk's request, .upsert(batch).execute() or
\* .insert(batch).execute(), on the table
Apply_AlwaysAppend(st, req) == st \o req.rows
Apply(st, req) ==
    IF req.op = "upsert" THEN Upsert(st, req.rows) ELSE st \o req.rows

\* did the store write the rows of a request that failed with e?  A request
\* the store rejected wrote nothing; one that timed out may have been
\* written before the answer was lost
WrittenOnFailure(st, req, e) ==
    IF e \in ConnectionErrors /\ Accepts(st, req) THEN BOOLEAN ELSE {FALSE}

\* query = table(...).select("*"), then query = query.eq(column, value) for
\* each item of a non-empty filters dict
BuildQuery(f) == IF f.given /\ f.eqs # {} THEN f.eqs ELSE {}

\* the one request of a query call: select("*") with the eq conditions
QueryRequest(eqs) == [op |-> "select", offset |-> 0, rows |-> <<>>, eqs |-> eqs]

\* the rows of the table that satisfy every eq condition of a request
Matching(st, eqs) ==
    SelectSeq(st, LAMBDA r : \A p \in eqs : r[p[1]] = p[2])

\* response.data of one request: the store returns at most RowCap rows
Response(st, eqs) ==
    LET m == Matching(st, eqs) IN SubSeq(m, 1, Min(RowCap, Len(m)))

\* ------------------------------------------------------------------------
\* upload_dataframe
\* ------------------------------------------------------------------------
\* nothing has been called on the client yet
Fresh ==
    /\ df = <<>>
    /\ batch_size = DefaultBatchSize
    /\ upsert = FALSE
    /\ total_rows = 0
    /\ records = <<>>
    /\ i = 0
    /\ batch = <<>>
    /\ uploaded = 0
    /\ errors = <<>>
    /\ sent = <<>>
    /\ inflight = {}
    /\ outcomes = <<>>
    /\ summary = NoSummary
    /\ phase = "idle"
    /\ kind = "none"
    /\ raw = NoTable
    /\ prepared = NoTable
    /\ again = NoTable
    /\ schedules = NoTable
    /\ store = <<>>
    /\ storeBefore = <<>>
    /\ written = <<>>
    /\ run = 0
    /\ firstRun = NoRun
    /\ filters = NoFilters
    /\ data = <<>>
    /\ failures = {}
    /\ apc = "idle"
    /\ which = "none"
    /\ metric = "none"
    /\ pbp = <<>>
    /\ ranking = <<>>
    /\ mpc = "start"
    /\ argv = <<>>
    /\ data_types = {}
    /\ nextStep = 1
    /\ ran = <<>>
    /\ ppc = "start"
    /\ cap = RowCap
    /\ matching = <<>>
    /\ offset = 0
    /\ page = <<>>
    /\ all_data = <<>>
    /\ rpc = [p \in {1, 2} |-> "idle"]
    /\ rdf = [p \in {1, 2} |-> <<>>]
    /\ rbatch = [p \in {1, 2} |-> DefaultBatchSize]
    /\ ri = [p \in {1, 2} |-> 0]
    /\ rstore = <<>>
    /\ env = "unset"
    /\ cache = NoSettings
    /\ reads = 0
    /\ loaded = 0
    /\ got = NoSettings
    /\ firstGot = NoSettings
    /\ made = NoClient

Init == pc = "idle" /\ Fresh

\* the call, up to the creation of the range object of the for loop;
\* range(0, total_rows, 0) raises ValueError, which leaves the function
UploadCall ==
    /\ UNCHANGED mapVars
    /\ pc = "idle"
    /\ \E c \in UploadInputs, u \in BOOLEAN, v \in Versions :
        /\ df' = [k \in 1..c.n |-> Row(k, v)]
        /\ batch_size' = c.b
        /\ upsert' = u
        /\ total_rows' = c.n
        /\ records' = [k \in 1..c.n |-> Row(k, v)]
        /\ pc' = IF c.b = 0 THEN "raised" ELSE "loop"
    /\ i' = 0
    /\ uploaded' = 0
    /\ errors' = <<>>
    /\ storeBefore' = store
    /\ run' = run + 1
    /\ failures' = {}
    /\ UNCHANGED <<batch, sent, inflight, outcomes, summary, store, written,
                   firstRun>>
    /\ UNCHANGED qVars

\* one iteration, up to the blocking execute() of the chunk's request
SendChunk_Async ==
    /\ UNCHANGED mapVars
    /\ pc = "loop"
    /\ RangeHasNext(i, total_rows, batch_size)
    /\ batch' = Slice(records, i, i + batch_size)
    /\ sent' = Append(sent, Request(i, batch', upsert))
    /\ inflight' = inflight \cup {Request(i, batch', upsert)}
    /\ outcomes' = Append(outcomes, "ok")
    /\ written' = Append(written, TRUE)
    /\ store' = Apply(store, Request(i, batch', upsert))
    /\ uploaded' = CountUploaded(uploaded, batch')
    /\ i' = NextOffset(i, batch_size)
    /\ UNCHANGED <<pc, df, batch_size, upsert, total_rows, records, errors,
                   summary, storeBefore, run, firstRun, failures>>
    /\ UNCHANGED qVars
SendChunk ==
    /\ UNCHANGED mapVars
    /\ pc = "loop"
    /\ RangeHasNext(i, total_rows, batch_size)
    /\ batch' = Slice(records, i, i + batch_size)
    /\ sent' = Append(sent, Request(i, batch', upsert))
    /\ inflight' = inflight \cup {Request(i, batch', upsert)}
    /\ pc' = "executing"
    /\ UNCHANGED <<df, batch_size, upsert, total_rows, records, i, uploaded,
                   errors, outcomes, summary, store, storeBefore, written,
                   run, firstRun, failures>>
    /\ UNCHANGED qVars

\* execute() returns: the store wrote the chunk and acknowledged it
ChunkOk_Buffered ==
    /\ UNCHANGED mapVars
    /\ pc = "executing"
    /\ Accepts(store, Request(i, batch, upsert))
    /\ written' = Append(written, TRUE)
    /\ inflight' = inflight \ {Request(i, batch, upsert)}
    /\ outcomes' = Append(outcomes, "ok")
    /\ uploaded' = CountUploaded(uploaded, batch)
    /\ i' = NextOffset(i, batch_size)
    /\ pc' = "loop"
    /\ UNCHANGED <<df, batch_size, upsert, total_rows, records, batch, errors,
                   sent, summary, store, storeBefore, run, firstRun, failures>>
    /\ UNCHANGED qVars
ChunkOk ==
    /\ UNCHANGED mapVars
    /\ pc = "executing"
    /\ Accepts(store, Request(i, batch, upsert))
    /\ store' = Apply(store, Request(i, batch, upsert))
    /\ written' = Append(written, TRUE)
    /\ inflight' = inflight \ {Request(i, batch, upsert)}
    /\ outcomes' = Append(outcomes, "ok")
    /\ uploaded' = CountUploaded(uploaded, batch)
    /\ i' = NextOffset(i, batch_size)
    /\ pc' = "loop"
    /\ UNCHANGED <<df, batch_size, upsert, total_rows, records, batch, errors,
                   sent, summary, storeBefore, run, firstRun, failures>>
    /\ UNCHANGED qVars

\* execute() raises an Exception: caught, recorded, next iteration
ChunkFail_Abort ==
    /\ UNCHANGED mapVars
    /\ pc = "executing"
    /\ inflight' = inflight \ {Request(i, batch, upsert)}
    /\ outcomes' = Append(outcomes, "fail")
    /\ written' = Append(written, FALSE)
    /\ pc' = "raised"
    /\ UNCHANGED <<df, batch_size, upsert, total_rows, records, i, batch,
                   uploaded, errors, sent, summary, store, storeBefore, run,
                   firstRun, failures>>
    /\ UNCHANGED qVars
ChunkFail ==
    /\ UNCHANGED mapVars
    /\ pc = "executing"
    /\ \E e \in ErrorMessages :
        /\ errors' = Append(errors, ErrorEntry(i, e))
        /\ failures' = failures \cup {[op |-> "upload", error |-> e, offset |-> i]}
        /\ \E w \in WrittenOnFailure(store, Request(i, batch, upsert), e) :
            /\ written' = Append(written, w)
            /\ store' = IF w THEN Apply(store, Request(i, batch, upsert))
                        ELSE store
    /\ inflight' = inflight \ {Request(i, batch, upsert)}
    /\ outcomes' = Append(outcomes, "fail")
    /\ i' = NextOffset(i, batch_size)
    /\ pc' = "loop"
    /\ UNCHANGED <<df, batch_size, upsert, total_rows, records, batch,
                   uploaded, sent, summary, storeBefore, run, firstRun>>
    /\ UNCHANGED qVars

\* the range is exhausted: build and return the summary
Return ==
    /\ UNCHANGED mapVars
    /\ pc = "loop"
    /\ ~RangeHasNext(i, total_rows, batch_size)
    /\ summary' = Summary(total_rows, uploaded, errors)
    /\ pc' = "done"
    /\ firstRun' = IF run = 1
                   THEN [df |-> df, errors |-> Len(errors), store |-> store]
                   ELSE firstRun
    /\ UNCHANGED <<df, batch_size, upsert, total_rows, records, i, batch,
                   uploaded, errors, sent, inflight, outcomes, store,
                   storeBefore, written, run, failures>>
    /\ UNCHANGED qVars

Next == UploadCall \/ SendChunk \/ ChunkOk \/ ChunkFail \/ Return

Spec == Init /\ [][Next]_vars

\* ------------------------------------------------------------------------
\* Constructor, second upload and query of SupabaseClient
\* ------------------------------------------------------------------------
\* before SupabaseClient() has run
ClientInit == pc = "new" /\ Fresh

\* __init__: get_settings() and create_client() succeed
Construct ==
    /\ pc = "new"
    /\ pc' = "idle"
    /\ UNCHANGED <<df, batch_size, upsert, total_rows, records, i, batch,
                   uploaded, errors, sent, inflight, outcomes, summary, store,
                   storeBefore, written, run, firstRun, failures>>
    /\ UNCHANGED qVars
    /\ UNCHANGED mapVars

\* __init__: get_settings() or create_client() raises; nothing catches it
ConstructFail ==
    /\ pc = "new"
    /\ \E e \in InitErrors : failures' = {[op |-> "init", error |-> e, offset |-> 0]}
    /\ pc' = "init_raised"
    /\ UNCHANGED <<df, batch_size, upsert, total_rows, records, i, batch,
                   uploaded, errors, sent, inflight, outcomes, summary, store,
                   storeBefore, written, run, firstRun>>
    /\ UNCHANGED qVars
    /\ UNCHANGED mapVars

\* the load script run a second time after a first run that reported no
\* failed chunk: upload_dataframe is called again with the same keys,
\* batch_size and upsert flag, and the same or changed non-key values
\* (tables of up to MaxRows rows)
UploadAgain ==
    /\ pc = "done"
    /\ run = 1
    /\ errors = <<>>
    /\ total_rows <= MaxRows
    /\ \E v \in Versions :
        /\ df' = [k \in 1..total_rows |-> Row(k, v)]
        /\ records' = [k \in 1..total_rows |-> Row(k, v)]
    /\ pc' = "loop"
    /\ i' = 0
    /\ uploaded' = 0
    /\ errors' = <<>>
    /\ sent' = <<>>
    /\ outcomes' = <<>>
    /\ written' = <<>>
    /\ storeBefore' = store
    /\ run' = run + 1
    /\ failures' = {}
    /\ UNCHANGED <<batch_size, upsert, total_rows, batch, inflight, summary,
                   store, firstRun>>
    /\ UNCHANGED qVars
    /\ UNCHANGED mapVars

\* query(table_name, filters), up to the blocking execute(); the locals of
\* an upload_dataframe call that has returned are gone
QueryCall ==
    /\ pc \in {"idle", "done"}
    /\ \E f \in FilterChoices :
        /\ filters' = f
        /\ sent' = <<QueryRequest(BuildQuery(f))>>
        /\ inflight' = {QueryRequest(BuildQuery(f))}
    /\ data' = <<>>
    /\ pc' = "querying"
    /\ df' = <<>>
    /\ batch_size' = DefaultBatchSize
    /\ upsert' = FALSE
    /\ total_rows' = 0
    /\ records' = <<>>
    /\ i' = 0
    /\ batch' = <<>>
    /\ uploaded' = 0
    /\ errors' = <<>>
    /\ outcomes' = <<>>
    /\ written' = <<>>
    /\ summary' = NoSummary
    /\ storeBefore' = store
    /\ failures' = {}
    /\ UNCHANGED <<store, run, firstRun>>
    /\ UNCHANGED mapVars

\* execute() returns: return pl.DataFrame(response.data)
QueryResponse_NextPage ==
    /\ pc = "querying"
    /\ data' = data \o Response(store, sent[Len(sent)].eqs)
    /\ IF Len(Response(store, sent[Len(sent)].eqs)) = RowCap
       THEN /\ sent' = Append(sent, QueryRequest(sent[Len(sent)].eqs))
            /\ UNCHANGED <<pc, inflight, outcomes>>
       ELSE /\ inflight' = {}
            /\ outcomes' = <<"ok">>
            /\ pc' = "queried"
            /\ UNCHANGED sent
    /\ UNCHANGED <<df, batch_size, upsert, total_rows, records, i, batch,
                   uploaded, errors, summary, store,
                   storeBefore, written, run, firstRun, failures, filters>>
    /\ UNCHANGED mapVars
QueryResponse ==
    /\ pc = "querying"
    /\ data' = Response(store, sent[Len(sent)].eqs)
    /\ inflight' = inflight \ {sent[Len(sent)]}
    /\ outcomes' = <<"ok">>
    /\ pc' = "queried"
    /\ UNCHANGED <<df, batch_size, upsert, total_rows, records, i, batch,
                   uploaded, errors, sent, summary, store,
                   storeBefore, written, run, firstRun, failures, filters>>
    /\ UNCHANGED mapVars

\* execute() raises: query has no try, the exception leaves the method
QueryFail_Swallow ==
    /\ pc = "querying"
    /\ \E e \in ConnectionErrors :
        failures' = {[op |-> "query", error |-> e, offset |-> 0]}
    /\ data' = <<>>
    /\ inflight' = inflight \ {sent[Len(sent)]}
    /\ outcomes' = <<"fail">>
    /\ pc' = "queried"
    /\ UNCHANGED <<df, batch_size, upsert, total_rows, records, i, batch,
                   uploaded, errors, sent, summary, store,
                   storeBefore, written, run, firstRun, filters>>
    /\ UNCHANGED mapVars
QueryFail ==
    /\ pc = "querying"
    /\ \E e \in ConnectionErrors :
        failures' = {[op |-> "query", error |-> e, offset |-> 0]}
    /\ inflight' = inflight \ {sent[Len(sent)]}
    /\ outcomes' = <<"fail">>
    /\ pc' = "query_raised"
    /\ UNCHANGED <<df, batch_size, upsert, total_rows, records, i, batch,
                   uploaded, errors, sent, summary, store,
                   storeBefore, written, run, firstRun>>
    /\ UNCHANGED qVars
    /\ UNCHANGED mapVars

ClientNext ==
    \/ Construct \/ ConstructFail
    \/ UploadCall \/ SendChunk \/ ChunkOk \/ ChunkFail \/ Return
    \/ UploadAgain
    \/ QueryCall \/ QueryResponse \/ QueryFail

ClientSpec == ClientInit /\ [][ClientNext]_vars

\* ------------------------------------------------------------------------
\* Properties of upload_dataframe
\* ------------------------------------------------------------------------
RECURSIVE FailedRowsUpTo(_)
FailedRowsUpTo(j) ==
    IF j = 0 THEN 0
    ELSE FailedRowsUpTo(j - 1)
         + (IF outcomes[j] = "fail" THEN Len(sent[j].rows) ELSE 0)

RECURSIVE FailedOffsetsUpTo(_)
FailedOffsetsUpTo(j) ==
    IF j = 0 THEN <<>>
    ELSE IF outcomes[j] = "fail"
         THEN Append(FailedOffsetsUpTo(j - 1), sent[j].offset)
         ELSE FailedOffsetsUpTo(j - 1)

\* the rows of the first j chunks received, one after the other: a row of
\* the table is at position r of this sequence exactly when it is in
\* exactly one chunk, in row order
RECURSIVE ChunksUpTo(_)
ChunksUpTo(j) ==
    IF j = 0 THEN <<>> ELSE ChunksUpTo(j - 1) \o sent[j].rows

\* ceil(n / b) for b > 0
CeilDiv(n, b) == (n + b - 1) \div b

\* the upload_dataframe call has returned its summary, with a chunk size of
\* at least one row
Returned == pc = "done" /\ batch_size >= 1

\* C1: in the returned summary, uploaded plus the row counts of the failed
\* chunks equals total_rows, for every table size, every chunk size and
\* every pattern of chunk failures
C1_Accounting ==
    Returned =>
        /\ summary.total_rows = Len(df)
        /\ summary.uploaded + FailedRowsUpTo(Len(outcomes)) = summary.total_rows

C1_Witness ==
    /\ Returned
    /\ total_rows % batch_size # 0
    /\ \E j, k \in 1..Len(outcomes) : outcomes[j] = "fail" /\ outcomes[k] = "ok"

\* C2: a failed chunk neither aborts the run nor is retried: with
\* batch_size > 0 the call never raises, no chunk offset is sent twice, and
\* at the return each of the ceil(n/b) chunks has been sent exactly once
C2_NoAbortNoRetry ==
    batch_size >= 1 =>
        /\ pc # "raised"
        /\ \A j, k \in 1..Len(sent) : sent[j].offset = sent[k].offset => j = k
        /\ pc = "done" =>
            /\ Len(sent) = CeilDiv(total_rows, batch_size)
            /\ \A c \in 0..(CeilDiv(total_rows, batch_size) - 1) :
                 Cardinality({j \in 1..Len(sent) :
                                sent[j].offset = c * batch_size}) = 1
            /\ summary = Summary(total_rows, uploaded, errors)

C2_Witness ==
    /\ Returned
    /\ Len(sent) >= 3
    /\ outcomes[1] = "fail"
    /\ outcomes[2] = "fail"

\* C3: the chunks partition the rows contiguously in row order: chunk k
\* holds rows [k*b, min((k+1)*b, n)), all chunks but the last have b rows,
\* the last has 1..b rows, and every row is in exactly one chunk
C3_Partition ==
    batch_size >= 1 =>
        /\ \A j \in 1..Len(sent) :
            LET lo == (j - 1) * batch_size
                hi == Min(j * batch_size, total_rows)
            IN /\ sent[j].offset = lo
               /\ sent[j].rows = [x \in 1..(hi - lo) |-> df[lo + x]]
               /\ Len(sent[j].rows) >= 1
               /\ Len(sent[j].rows) <= batch_size
               /\ (j < CeilDiv(total_rows, batch_size)
                     => Len(sent[j].rows) = batch_size)
        /\ pc = "done" => ChunksUpTo(Len(sent)) = df

C3_Witness ==
    /\ Returned
    /\ batch_size >= 2
    /\ Len(sent) >= 2
    /\ Len(sent[Len(sent)].rows) < batch_size

\* C4: chunk requests are strictly sequential: never more than one request
\* outstanding, a request is issued only when every earlier one has been
\* answered, and the requests arrive in ascending offset order
C4_Sequential ==
    [][ /\ Cardinality(inflight') <= 1
        /\ (sent' # sent =>
              /\ inflight = {}
              /\ Len(outcomes) = Len(sent)
              /\ \A j \in 1..Len(sent) : sent[j].offset < sent'[Len(sent')].offset)
      ]_vars

C4_Witness ==
    /\ pc = "executing"
    /\ Len(sent) >= 3
    /\ outcomes[2] = "fail"

\* C5: 2,500 rows with batch_size 1000 and only the 2nd chunk failing give
\* total_rows 2500, uploaded 1500, errors 1, and one error entry with chunk
\* start offset 1000
C5_Scenario ==
    (/\ pc = "done"
     /\ Len(df) = 2500
     /\ batch_size = 1000
     /\ outcomes = <<"ok", "fail", "ok">>)
    => /\ summary.total_rows = 2500
       /\ summary.uploaded = 1500
       /\ summary.errors = 1
       /\ Len(summary.error_details) = 1
       /\ summary.error_details[1].batch = 1000

C5_Witness ==
    /\ pc = "done"
    /\ Len(df) = 2500
    /\ batch_size = 1000
    /\ outcomes = <<"ok", "fail", "ok">>

\* C6: in the summary, errors is the length of error_details, there is one
\* entry per failed chunk carrying that chunk's start offset (a multiple of
\* batch_size below total_rows), and the entries ascend strictly by offset
C6_ErrorDetails ==
    pc = "done" =>
        LET d == summary.error_details IN
        /\ summary.errors = Len(d)
        /\ Len(d) = Cardinality({j \in 1..Len(outcomes) : outcomes[j] = "fail"})
        /\ [k \in 1..Len(d) |-> d[k].batch] = FailedOffsetsUpTo(Len(outcomes))
        /\ \A k \in 1..Len(d) :
            /\ d[k].batch % batch_size = 0
            /\ d[k].batch >= 0
            /\ d[k].batch < summary.total_rows
            /\ d[k].error \in ErrorMessages
        /\ \A k \in 1..(Len(d) - 1) : d[k].batch < d[k + 1].batch

C6_Witness ==
    /\ pc = "done"
    /\ summary.errors >= 2
    /\ summary.uploaded >= 2
    /\ outcomes[1] = "ok"
    /\ outcomes[Len(outcomes)] = "fail"

\* ------------------------------------------------------------------------
\* Tables (polars DataFrame): a set of column names and a sequence of rows,
\* each row a function from the column names to values
\* ------------------------------------------------------------------------
Null == [null |-> TRUE]
IntV(v) == [int |-> v]
StrV(x) == [str |-> x]
DateV(x) == [date |-> x]
\* an Int64 value outside the range of Int32, by its decimal digits
BigV(x) == [big |-> x]

IsNull(v) == "null" \in DOMAIN v
IsInt(v) == "int" \in DOMAIN v
IsStr(v) == "str" \in DOMAIN v
IsDate(v) == "date" \in DOMAIN v
IsBig(v) == "big" \in DOMAIN v

\* the exception raised by rename when the new name is already a column
DuplicateError == [error |-> "DuplicateError"]

IsTable(t) == "cols" \in DOMAIN t
IsError(t) == "error" \in DOMAIN t

\* a DataFrame without columns has no rows
Table(cols, rows) ==
    [cols |-> cols, rows |-> IF cols = {} THEN <<>> ELSE rows]

\* range of pl.Int32
Int32Max == 2147483647
Int32Min == -Int32Max - 1

\* strings of the model that parse as an integer
NumericStrings == ("7" :> 7)

\* pl.col(c).cast(pl.Int32, strict=False) on one value: a value that does
\* not fit or does not parse becomes null
CastInt32_Strict(v) ==
    IF IsInt(v) THEN v
    ELSE IF IsStr(v) /\ v.str \in DOMAIN NumericStrings
         THEN IntV(NumericStrings[v.str])
         ELSE v
CastInt32(v) ==
    IF IsInt(v)
    THEN IF v.int >= Int32Min /\ v.int <= Int32Max THEN v ELSE Null
    ELSE IF IsStr(v) /\ v.str \in DOMAIN NumericStrings
         THEN IntV(NumericStrings[v.str])
         ELSE Null

\* pl.col(c).cast(pl.Utf8) on one value
CastUtf8(v) ==
    IF IsDate(v) THEN StrV(v.date)
    ELSE IF IsInt(v) THEN StrV(ToString(v.int))
    ELSE IF IsBig(v) THEN StrV(v.big)
    ELSE v

\* pl.col(c).fill_null(0)
FillNull0(v) == IF IsNull(v) THEN IntV(0) ELSE v

\* df.filter(pl.col(c).is_not_null())
FilterNotNull_KeepAll(t, c) == t
FilterNotNull(t, c) ==
    Table(t.cols, SelectSeq(t.rows, LAMBDA r : ~IsNull(r[c])))

\* df.with_columns(expr.alias(c)), vals the values of expr row by row:
\* adds column c, or replaces it
WithColumn(t, c, vals) ==
    Table(t.cols \cup {c},
          [k \in 1..Len(t.rows) |->
              [x \in t.cols \cup {c} |->
                  IF x = c THEN vals[k] ELSE t.rows[k][x]]])

\* df.with_columns(pl.col(c).cast(pl.Int32, strict=False))
CastColInt32(t, c) ==
    WithColumn(t, c, [k \in 1..Len(t.rows) |-> CastInt32(t.rows[k][c])])

\* df.with_columns(pl.col(c).cast(pl.Utf8).alias(c))
CastColUtf8(t, c) ==
    WithColumn(t, c, [k \in 1..Len(t.rows) |-> CastUtf8(t.rows[k][c])])

\* df.rename(m), m a function from old names (all columns of df) to new
\* names: raises DuplicateError when two columns would carry the same name
NewName(m, c) == IF c \in DOMAIN m THEN m[c] ELSE c

Rename(t, m) ==
    IF \E c, d \in t.cols : c # d /\ NewName(m, c) = NewName(m, d)
    THEN DuplicateError
    ELSE LET cols == {NewName(m, c) : c \in t.cols}
             Old(x) == CHOOSE c \in t.cols : NewName(m, c) = x
         IN Table(cols,
                  [k \in 1..Len(t.rows) |-> [x \in cols |-> t.rows[k][Old(x)]]])

\* [col for col in schema_columns if col in df.columns]
Available(schema, t) == schema \cap t.cols

\* df.select(available)
Select(t, cols) ==
    Table(cols, [k \in 1..Len(t.rows) |-> [x \in cols |-> t.rows[k][x]]])

\* for col in int_cols: if col in df.columns: cast to Int32 (non-strict)
RECURSIVE CastIntCols(_, _)
CastIntCols(t, cols) ==
    IF cols \cap t.cols = {} THEN t
    ELSE LET c == CHOOSE x \in cols \cap t.cols : TRUE
         IN CastIntCols(CastColInt32(t, c), cols \ {c})

\* df.unique(subset=[c], keep="first"), rows in input order
RECURSIVE UniqueFirst_KeepLast(_, _, _)
UniqueFirst_KeepLast(rows, c, seen) ==
    IF rows = <<>> THEN <<>>
    ELSE IF \E j \in 2..Len(rows) : rows[j][c] = Head(rows)[c]
         THEN UniqueFirst_KeepLast(Tail(rows), c, seen)
         ELSE <<Head(rows)>> \o UniqueFirst_KeepLast(Tail(rows), c, seen)
RECURSIVE UniqueFirst(_, _, _)
UniqueFirst(rows, c, seen) ==
    IF rows = <<>> THEN <<>>
    ELSE IF Head(rows)[c] \in seen
         THEN UniqueFirst(Tail(rows), c, seen)
         ELSE <<Head(rows)>> \o UniqueFirst(Tail(rows), c, seen \cup {Head(rows)[c]})

\* ------------------------------------------------------------------------
\* PlayByPlayLoader.prepare_for_upload
\* ------------------------------------------------------------------------
PbpKeyColumns ==
    {"play_id", "game_id", "season", "week", "game_date", "posteam",
     "defteam", "quarter", "time", "down", "ydstogo", "yardline_100",
     "play_type", "yards_gained", "epa", "wp", "wpa", "passer_player_name",
     "receiver_player_name", "rusher_player_name", "desc",
     "score_differential"}

PbpIntColumns ==
    {"season", "week", "quarter", "down", "ydstogo", "yardline_100",
     "yards_gained", "score_differential"}

PreparePbp(t) ==
    LET selected == Select(t, Available(PbpKeyColumns, t))
        result == CastIntCols(selected, PbpIntColumns)
    IN IF "play_id" \in result.cols
       THEN Table(result.cols, UniqueFirst(result.rows, "play_id", {}))
       ELSE result

\* ------------------------------------------------------------------------
\* PlayerStatsLoader.prepare_for_upload
\* ------------------------------------------------------------------------
PlayerStatsSchema ==
    {"player_id", "player_name", "season", "week", "team", "position",
     "completions", "attempts", "passing_yards", "passing_tds",
     "interceptions", "carries", "rushing_yards", "rushing_tds",
     "receptions", "receiving_yards", "receiving_tds", "targets",
     "fantasy_points", "fantasy_points_ppr"}

PlayerStatsIntCols ==
    {"season", "week", "completions", "attempts", "passing_yards",
     "passing_tds", "interceptions", "carries", "rushing_yards",
     "rushing_tds", "receptions", "receiving_yards", "receiving_tds",
     "targets"}

PreparePlayerStats(t) ==
    LET filtered == IF "player_id" \in t.cols
                    THEN FilterNotNull(t, "player_id") ELSE t
        renamed == IF /\ "passing_interceptions" \in filtered.cols
                      /\ "interceptions" \notin filtered.cols
                   THEN Rename(filtered, "passing_interceptions" :> "interceptions")
                   ELSE filtered
    IN IF IsError(renamed) THEN renamed
       ELSE CastIntCols(Select(renamed, Available(PlayerStatsSchema, renamed)),
                        PlayerStatsIntCols)

\* ------------------------------------------------------------------------
\* PlayerStatsLoader.prepare_player_info_for_upload
\* ------------------------------------------------------------------------
PlayersSchema ==
    {"player_id", "player_name", "position", "height", "weight", "college",
     "birth_date", "draft_year", "draft_round", "draft_pick", "draft_team",
     "gsis_id", "espn_id", "yahoo_id"}

PlayersIntCols == {"weight", "draft_year", "draft_round", "draft_pick"}

PreparePlayerInfo(t) ==
    LET filtered == IF "gsis_id" \in t.cols
                    THEN FilterNotNull(t, "gsis_id") ELSE t
        withId == IF "gsis_id" \in filtered.cols
                  THEN WithColumn(filtered, "player_id",
                            [k \in 1..Len(filtered.rows) |->
                                filtered.rows[k]["gsis_id"]])
                  ELSE filtered
        renamed == IF "display_name" \in withId.cols
                   THEN Rename(withId, "display_name" :> "player_name")
                   ELSE withId
    IN IF IsError(renamed) THEN renamed
       ELSE LET result ==
                  CastIntCols(Select(renamed, Available(PlayersSchema, renamed)),
                              PlayersIntCols)
            IN IF "birth_date" \in result.cols
               THEN CastColUtf8(result, "birth_date")
               ELSE result

\* ------------------------------------------------------------------------
\* TeamDataLoader.prepare_for_upload
\* ------------------------------------------------------------------------
SchedulesSchema ==
    {"game_id", "season", "week", "game_type", "gameday", "home_team",
     "away_team", "home_score", "away_score", "stadium", "location", "roof",
     "surface", "temp", "wind"}

SchedulesIntCols ==
    {"season", "week", "home_score", "away_score", "temp", "wind"}

PrepareSchedules(t) ==
    LET selected == Select(t, Available(SchedulesSchema, t))
        renamed == IF "gameday" \in selected.cols
                   THEN Rename(selected, "gameday" :> "game_date")
                   ELSE selected
    IN IF IsError(renamed) THEN renamed
       ELSE CastIntCols(renamed, SchedulesIntCols)

RostersSchema ==
    {"player_id", "player_name", "season", "team", "position",
     "depth_chart_position", "jersey_number", "status", "height", "weight",
     "birth_date", "college"}

RostersIntCols == {"season", "jersey_number", "weight"}

\* the rename_map built from the columns present
RostersRenameMap(t) ==
    [c \in {"gsis_id", "full_name"} \cap t.cols |->
        IF c = "gsis_id" THEN "player_id" ELSE "player_name"]

PrepareRosters(t) ==
    LET filtered == IF "gsis_id" \in t.cols
                    THEN FilterNotNull(t, "gsis_id") ELSE t
        dated == IF "birth_date" \in filtered.cols
                 THEN CastColUtf8(filtered, "birth_date")
                 ELSE filtered
        renamed == IF DOMAIN RostersRenameMap(dated) # {}
                   THEN Rename(dated, RostersRenameMap(dated))
                   ELSE dated
    IN IF IsError(renamed) THEN renamed
       ELSE CastIntCols(Select(renamed, Available(RostersSchema, renamed)),
                        RostersIntCols)

TeamsSchema ==
    {"team_abbr", "team_name", "team_nick", "team_color", "team_color2",
     "team_logo_espn", "team_logo_wikipedia", "team_conference",
     "team_division"}

PrepareTeamInfo(t) == Select(t, Available(TeamsSchema, t))

TeamStatsSchema ==
    {"team", "season", "week", "opponent", "completions", "attempts",
     "passing_yards", "passing_tds", "interceptions", "carries",
     "rushing_yards", "rushing_tds", "total_yards", "turnovers", "points"}

TeamStatsIntCols ==
    {"season", "week", "completions", "attempts", "passing_yards",
     "passing_tds", "interceptions", "carries", "rushing_yards",
     "rushing_tds", "total_yards", "turnovers", "points"}

TurnoverCols ==
    {"passing_interceptions", "rushing_fumbles_lost", "sack_fumbles_lost"}

\* pl.sum_horizontal over the fill_null(0) of the turnover columns present
TurnoverSum_NoSackFumbles(r, cols) ==
    LET Term(c) == IF c \in cols THEN FillNull0(r[c]).int ELSE 0
    IN IntV(Term("passing_interceptions") + Term("rushing_fumbles_lost"))
TurnoverSum(r, cols) ==
    LET Term(c) == IF c \in cols THEN FillNull0(r[c]).int ELSE 0
    IN IntV(Term("passing_interceptions") + Term("rushing_fumbles_lost")
            + Term("sack_fumbles_lost"))

\* pl.col("passing_yards").fill_null(0) + pl.col("rushing_yards").fill_null(0)
TotalYards_PassingOnly(r) == IntV(FillNull0(r["passing_yards"]).int)
TotalYards(r) ==
    IntV(FillNull0(r["passing_yards"]).int + FillNull0(r["rushing_yards"]).int)

PrepareTeamStats(t) ==
    LET yards == IF "passing_yards" \in t.cols /\ "rushing_yards" \in t.cols
                 THEN WithColumn(t, "total_yards",
                        [k \in 1..Len(t.rows) |-> TotalYards(t.rows[k])])
                 ELSE t
        turn == IF TurnoverCols \cap yards.cols # {}
                THEN WithColumn(yards, "turnovers",
                        [k \in 1..Len(yards.rows) |->
                            TurnoverSum(yards.rows[k], TurnoverCols \cap yards.cols)])
                ELSE yards
        opp == IF "opponent_team" \in turn.cols
               THEN Rename(turn, "opponent_team" :> "opponent")
               ELSE turn
        ints == IF IsError(opp) THEN opp
                ELSE IF "passing_interceptions" \in opp.cols
                     THEN Rename(opp, "passing_interceptions" :> "interceptions")
                     ELSE opp
    IN IF IsError(ints) THEN ints
       ELSE CastIntCols(Select(ints, Available(TeamStatsSchema, ints)),
                        TeamStatsIntCols)

\* ------------------------------------------------------------------------
\* The load steps of scripts/load_data.py: the mapper of each destination
\* ------------------------------------------------------------------------
Kinds ==
    {"play_by_play", "player_stats", "players", "schedules", "rosters",
     "teams", "team_stats"}

Mapper(k, t) ==
    CASE k = "play_by_play" -> PreparePbp(t)
      [] k = "player_stats" -> PreparePlayerStats(t)
      [] k = "players" -> PreparePlayerInfo(t)
      [] k = "schedules" -> PrepareSchedules(t)
      [] k = "rosters" -> PrepareRosters(t)
      [] k = "teams" -> PrepareTeamInfo(t)
      [] k = "team_stats" -> PrepareTeamStats(t)

\* unique() runs without maintain_order: the rows of the play_by_play
\* output may come in any order; every other mapper keeps the row order
Reorderings(t) ==
    IF IsError(t) THEN {t}
    ELSE {Table(t.cols, [k \in 1..Len(t.rows) |-> t.rows[p[k]]]) :
            p \in Permutations(1..Len(t.rows))}

Outputs(k, t) ==
    IF k = "play_by_play" /\ "play_id" \in t.cols
    THEN Reorderings(Mapper(k, t))
    ELSE {Mapper(k, t)}

\* ------------------------------------------------------------------------
\* Input tables of the upstream provider
\* ------------------------------------------------------------------------
\* the values a column of a provider table may hold; a column has one
\* dtype, and a text column's value names the column it came from
ColDomain(c) ==
    CASE c = "play_id" -> {Null, IntV(1), IntV(2)}
      [] c = "gsis_id" -> {Null, StrV("g1")}
      [] c = "player_id" -> {Null, StrV("p1")}
      [] c = "game_id" -> {Null, StrV("g"), StrV("h")}
      [] c \in {"team", "team_abbr"} -> {Null, StrV(c)}
      [] c \in {"season", "week"} -> {Null, IntV(2024)}
      [] c = "passing_yards" -> {Null, IntV(250)}
      [] c = "rushing_yards" -> {Null, IntV(80)}
      [] c = "passing_interceptions" -> {Null, IntV(1)}
      [] c = "interceptions" -> {IntV(2)}
      [] c = "total_yards" -> {IntV(5)}
      [] c = "rushing_fumbles_lost" -> {Null, IntV(2)}
      [] c = "sack_fumbles_lost" -> {Null, IntV(4)}
      [] c = "turnovers" -> {IntV(9)}
      [] c \in {"points", "down"} -> {IntV(3), BigV("2147483648")}
      [] c = "temp" -> {StrV("7"), StrV("n/a")}
      [] c \in {"weight", "jersey_number"} -> {IntV(12), BigV("2147483648")}
      [] c = "birth_date" -> {Null, DateV("2000-01-01")}
      [] OTHER -> {StrV(c)}

\* the column universes the input tables are drawn from, per destination
Families ==
    { [kind |-> "play_by_play",
       universe |-> {"play_id", "game_id", "season", "old_game_id"}],
      [kind |-> "player_stats",
       universe |-> {"player_id", "season", "week", "passing_interceptions",
                     "interceptions"}],
      [kind |-> "players",
       universe |-> {"gsis_id", "player_id", "display_name", "player_name"}],
      [kind |-> "players",
       universe |-> {"gsis_id", "birth_date", "weight", "esb_id"}],
      [kind |-> "schedules",
       universe |-> {"game_id", "gameday", "game_date", "season"}],
      [kind |-> "rosters",
       universe |-> {"gsis_id", "player_id", "full_name", "player_name"}],
      [kind |-> "rosters",
       universe |-> {"gsis_id", "season", "birth_date", "jersey_number"}],
      [kind |-> "teams",
       universe |-> {"team_abbr", "team_name", "team_id"}],
      [kind |-> "team_stats",
       universe |-> {"team", "season", "week", "opponent_team", "opponent"}],
      [kind |-> "team_stats",
       universe |-> {"passing_yards", "rushing_yards", "total_yards",
                     "passing_interceptions", "interceptions"}],
      [kind |-> "team_stats",
       universe |-> {"passing_interceptions", "rushing_fumbles_lost",
                     "sack_fumbles_lost", "turnovers"}],
      [kind |-> "team_stats",
       universe |-> {"team", "points", "passing_yards", "rushing_yards"}],
      [kind |-> "play_by_play",
       universe |-> {"game_id", "down", "season"}],
      [kind |-> "schedules",
       universe |-> {"game_id", "temp", "season"}] }

RECURSIVE RowsOver(_)
RowsOver(cols) ==
    IF cols = {} THEN {<<>>}
    ELSE LET c == CHOOSE x \in cols : TRUE
         IN {(c :> v) @@ r : v \in ColDomain(c), r \in RowsOver(cols \ {c})}

TablesOver(universe) ==
    UNION {
        UNION { {Table(cols, rows) : rows \in [1..n -> RowsOver(cols)]} :
                n \in 0..MaxTableRows } :
        cols \in SUBSET universe }

\* the roster scenario: 10 rows with the columns gsis_id and season, the
\* gsis_id of exactly one row being null
ScenarioRowNumbers == 1..10

ScenarioTables(k) ==
    IF k \in {"rosters", "players"}
    THEN {Table({"gsis_id", "season"},
                [j \in ScenarioRowNumbers |->
                    [c \in {"gsis_id", "season"} |->
                        IF c = "season" THEN IntV(2024)
                        ELSE IF j = n THEN Null ELSE StrV(ToString(j))]]) :
            n \in ScenarioRowNumbers}
    ELSE {}

\* ------------------------------------------------------------------------
\* A load step: the provider returns a table, the mapper prepares it
\* ------------------------------------------------------------------------
Load ==
    /\ phase = "idle"
    /\ \E f \in Families :
        /\ kind' = f.kind
        /\ \E t \in TablesOver(f.universe) \cup ScenarioTables(f.kind) : raw' = t
    /\ phase' = "raw"
    /\ UNCHANGED <<prepared, again, schedules>>
    /\ UNCHANGED upVars

\* df_prepared = loader.prepare_..._for_upload(df)
PrepareStep(k) ==
    /\ phase = "raw"
    /\ kind = k
    /\ prepared' \in Outputs(k, raw)
    /\ phase' = "prepared"
    /\ UNCHANGED <<kind, raw, again, schedules>>
    /\ UNCHANGED upVars

\* the mapper applied to its own output
Reapply ==
    /\ phase = "prepared"
    /\ IsTable(prepared)
    /\ again' \in Outputs(kind, prepared)
    /\ phase' = "reprepared"
    /\ UNCHANGED <<kind, raw, prepared, schedules>>
    /\ UNCHANGED upVars

\* ------------------------------------------------------------------------
\* TeamDataLoader.load_team_stats: points joined from the schedules
\* ------------------------------------------------------------------------
JoinKeys == {"season", "week", "team"}

StatsCols == {"season", "week", "team", "passing_yards"}

ScheduleCols ==
    {"season", "week", "home_team", "away_team", "home_score", "away_score"}

TeamNames == {"KC", "SF", "LA"}

\* a row of the weekly team stats the provider returns
StatsRow(w, t) ==
    [c \in StatsCols |->
        CASE c = "season" -> IntV(2024)
          [] c = "week" -> IntV(w)
          [] c = "team" -> StrV(t)
          [] OTHER -> IntV(250)]

\* a row of the provider's schedules: one game
Game(y, w, h, a, hs, as) ==
    [c \in ScheduleCols |->
        CASE c = "season" -> IntV(y)
          [] c = "week" -> IntV(w)
          [] c = "home_team" -> StrV(h)
          [] c = "away_team" -> StrV(a)
          [] c = "home_score" -> hs
          [] OTHER -> as]

StatsRows == {StatsRow(w, t) : w \in {1, 2}, t \in TeamNames}

\* played games of the season, one game not yet played (null scores) and
\* one game of another season
Games ==
    {g \in {Game(2024, w, h, a, IntV(21), IntV(14)) :
                w \in {1, 2}, h \in TeamNames, a \in TeamNames \ {"LA"}} :
        g["home_team"] # g["away_team"]}
    \cup {Game(2024, 2, "LA", "KC", Null, Null),
          Game(2023, 1, "KC", "SF", IntV(30), IntV(3))}

StatsTables ==
    UNION {{Table(StatsCols, rows) : rows \in [1..n -> StatsRows]} :
           n \in 1..MaxTableRows}

ScheduleTables ==
    {Table(ScheduleCols, rows) :
        rows \in {<<>>} \cup {<<g>> : g \in Games}
                 \cup {<<g, h>> : g \in Games, h \in Games}}

\* schedules.select([season, week, <side>_team as team, <side>_score as points])
SidePoints(sched, side) ==
    [j \in 1..Len(sched.rows) |->
        [c \in JoinKeys \cup {"points"} |->
            CASE c = "team" -> sched.rows[j][side \o "_team"]
              [] c = "points" -> sched.rows[j][side \o "_score"]
              [] OTHER -> sched.rows[j][c]]]

\* points_lookup = pl.concat([home_points, away_points])
PointsLookup_HomeOnly(sched) == SidePoints(sched, "home")
PointsLookup(sched) == SidePoints(sched, "home") \o SidePoints(sched, "away")

\* the rows of the lookup whose join keys equal those of a stats row; a
\* null key matches nothing
Matches(r, lookup) ==
    SelectSeq(lookup, LAMBDA m : \A c \in JoinKeys : ~IsNull(r[c]) /\ m[c] = r[c])

WithPoints(r, p) == [c \in DOMAIN r \cup {"points"} |-> IF c = "points" THEN p ELSE r[c]]

\* stats.join(points_lookup, on=[season, week, team], how="left"): every
\* left row once per matching right row, or once with a null when there is
\* none, in the order of the left table
RECURSIVE LeftJoinRows(_, _)
LeftJoinRows(rows, lookup) ==
    IF rows = <<>> THEN <<>>
    ELSE LET m == Matches(Head(rows), lookup)
         IN (IF m = <<>> THEN <<WithPoints(Head(rows), Null)>>
             ELSE [x \in 1..Len(m) |-> WithPoints(Head(rows), m[x].points)])
            \o LeftJoinRows(Tail(rows), lookup)

LoadTeamStats(stats, sched) ==
    Table(stats.cols \cup {"points"}, LeftJoinRows(stats.rows, PointsLookup(sched)))

\* stats = nfl.load_team_stats(...); schedules = nfl.load_schedules(...)
FetchTeamStats ==
    /\ phase = "idle"
    /\ kind' = "team_stats"
    /\ raw' \in StatsTables
    /\ schedules' \in ScheduleTables
    /\ phase' = "fetched"
    /\ UNCHANGED <<prepared, again>>
    /\ UNCHANGED upVars

\* the lookup is built and joined; load_team_stats returns the joined table
JoinPoints ==
    /\ phase = "fetched"
    /\ prepared' = LoadTeamStats(raw, schedules)
    /\ phase' = "joined"
    /\ UNCHANGED <<kind, raw, again, schedules>>
    /\ UNCHANGED upVars

MapperNext ==
    \/ Load \/ (\E k \in Kinds : PrepareStep(k)) \/ Reapply
    \/ FetchTeamStats \/ JoinPoints

MapperSpec == Init /\ [][MapperNext]_vars

\* ------------------------------------------------------------------------
\* Properties of the schema mappers
\* ------------------------------------------------------------------------
\* primary key of each destination table
PrimaryKey(k) ==
    CASE k = "play_by_play" -> {"play_id"}
      [] k = "player_stats" -> {"player_id", "season", "week"}
      [] k = "team_stats" -> {"team", "season", "week"}
      [] k = "rosters" -> {"player_id", "season"}
      [] k = "schedules" -> {"game_id"}
      [] k = "players" -> {"player_id"}
      [] k = "teams" -> {"team_abbr"}

\* the renames of each mapper, as <<provider name, destination name>>
RenamePairs(k) ==
    CASE k = "player_stats" -> {<<"passing_interceptions", "interceptions">>}
      [] k = "players" -> {<<"gsis_id", "player_id">>,
                           <<"display_name", "player_name">>}
      [] k = "rosters" -> {<<"gsis_id", "player_id">>,
                           <<"full_name", "player_name">>}
      [] k = "schedules" -> {<<"gameday", "game_date">>}
      [] k = "team_stats" -> {<<"opponent_team", "opponent">>,
                              <<"passing_interceptions", "interceptions">>}
      [] OTHER -> {}

\* the columns of each destination table: the mapper's schema column list,
\* under the destination names
DestSchema(k) ==
    CASE k = "play_by_play" -> PbpKeyColumns
      [] k = "player_stats" -> PlayerStatsSchema
      [] k = "players" -> PlayersSchema
      [] k = "schedules" -> (SchedulesSchema \ {"gameday"}) \cup {"game_date"}
      [] k = "rosters" -> RostersSchema
      [] k = "teams" -> TeamsSchema
      [] k = "team_stats" -> TeamStatsSchema

\* columns a mapper derives from the input columns without removing their
\* source: player_id aliased from gsis_id (players), total_yards and
\* turnovers (team_stats)
DerivedCols(k, cols) ==
    CASE k = "players" ->
            IF "gsis_id" \in cols THEN {"player_id"} ELSE {}
      [] k = "team_stats" ->
            (IF {"passing_yards", "rushing_yards"} \subseteq cols
             THEN {"total_yards"} ELSE {})
            \cup (IF TurnoverCols \cap cols # {} THEN {"turnovers"} ELSE {})
      [] OTHER -> {}

\* the renames of mapper k that move a column (the alias of players does not)
MovePairs(k) ==
    IF k = "players" THEN {<<"display_name", "player_name">>}
    ELSE RenamePairs(k)

\* a column set after the derivations and renames of mapper k
RenamedCols(k, cols) ==
    {IF \E p \in MovePairs(k) : p[1] = c
     THEN (CHOOSE p \in MovePairs(k) : p[1] = c)[2]
     ELSE c : c \in cols \cup DerivedCols(k, cols)}

\* the rows of a table as a bag: how often each row occurs
RowCount(t, r) == Cardinality({j \in 1..Len(t.rows) : t.rows[j] = r})

\* same columns, same rows, same values
SameTable(a, b) ==
    IF IsTable(a) /\ IsTable(b)
    THEN /\ a.cols = b.cols
         /\ Len(a.rows) = Len(b.rows)
         /\ \A j \in 1..Len(a.rows) : RowCount(a, a.rows[j]) = RowCount(b, a.rows[j])
    ELSE a = b

\* C7: every row a mapper hands to the uploader has a non-null value in
\* every primary-key column of its destination table
C7_NonNullKeys ==
    (phase = "prepared" /\ IsTable(prepared)) =>
        \A j \in 1..Len(prepared.rows) :
            \A c \in PrimaryKey(kind) \cap prepared.cols :
                ~IsNull(prepared.rows[j][c])

\* C8: every mapper is idempotent: applied to its own output it returns
\* that output (same columns, same rows, same values)
C8_Idempotent ==
    phase = "reprepared" => SameTable(again, prepared)

\* C9: the mapper's output columns are a subset of the destination schema
\* and equal the input columns, after the mapper's renames (and with the
\* columns it derives), intersected with that schema
C9_OutputColumns ==
    (phase = "prepared" /\ IsTable(prepared)) =>
        /\ prepared.cols \subseteq DestSchema(kind)
        /\ prepared.cols = RenamedCols(kind, raw.cols) \cap DestSchema(kind)

\* C10: when the destination column of a rename already exists in the
\* input, the mapper completes without error and its output carries that
\* column with values of the input's column of that name
C10_RenameIdempotent ==
    phase = "prepared" =>
        \A p \in RenamePairs(kind) :
            p[2] \in raw.cols =>
                /\ IsTable(prepared)
                /\ p[2] \in prepared.cols
                /\ \A j \in 1..Len(prepared.rows) :
                     \E x \in 1..Len(raw.rows) :
                        prepared.rows[j][p[2]] = raw.rows[x][p[2]]

\* the value of a numeric cell with null read as 0
NullAsZero(v) == IF IsNull(v) THEN 0 ELSE v.int

\* the rows of a table whose gsis_id is not null, in row order
NonNullGsisRows(t) == SelectSeq(t.rows, LAMBDA r : ~IsNull(r["gsis_id"]))

\* C11: the rosters and players mappers drop exactly the rows with a null
\* gsis_id: the output has one row per input row with a non-null gsis_id,
\* in row order, its player_id being that row's gsis_id; the roster table
\* of 10 rows with one null gsis_id maps to 9 rows
C11_NullGsisDropped ==
    (/\ phase = "prepared"
     /\ kind \in {"rosters", "players"}
     /\ "gsis_id" \in raw.cols
     /\ IsTable(prepared)) =>
        LET keptRows == NonNullGsisRows(raw) IN
        /\ Len(prepared.rows) = Len(keptRows)
        /\ "player_id" \in prepared.cols
        /\ \A j \in 1..Len(prepared.rows) :
             prepared.rows[j]["player_id"] = keptRows[j]["gsis_id"]
        /\ (raw \in ScenarioTables(kind) =>
              Len(prepared.rows) = 9)

C11_Witness ==
    /\ phase = "prepared"
    /\ kind = "rosters"
    /\ raw \in ScenarioTables(kind)
    /\ IsNull(raw.rows[4]["gsis_id"])
    /\ IsTable(prepared)
    /\ Len(prepared.rows) = 9

\* index of the first row of t whose column c holds v
FirstIndex(t, c, v) ==
    CHOOSE x \in 1..Len(t.rows) :
        /\ t.rows[x][c] = v
        /\ \A y \in 1..(x - 1) : t.rows[y][c] # v

\* C12: in the play_by_play mapper's output no two rows share a play_id,
\* every play_id of the input occurs, and the row of a play_id is made from
\* its first occurrence in the input
C12_DedupFirst ==
    (/\ phase = "prepared"
     /\ kind = "play_by_play"
     /\ "play_id" \in raw.cols) =>
        /\ IsTable(prepared)
        /\ \A j, k \in 1..Len(prepared.rows) :
             prepared.rows[j]["play_id"] = prepared.rows[k]["play_id"] => j = k
        /\ \A x \in 1..Len(raw.rows) :
             \E j \in 1..Len(prepared.rows) :
                prepared.rows[j]["play_id"] = raw.rows[x]["play_id"]
        /\ \A j \in 1..Len(prepared.rows) :
             \A c \in prepared.cols \ PbpIntColumns :
                prepared.rows[j][c]
                  = raw.rows[FirstIndex(raw, "play_id", prepared.rows[j]["play_id"])][c]

C12_Witness ==
    /\ phase = "prepared"
    /\ kind = "play_by_play"
    /\ {"play_id", "game_id"} \subseteq raw.cols
    /\ Len(raw.rows) = 2
    /\ raw.rows[1]["play_id"] = raw.rows[2]["play_id"]
    /\ raw.rows[1]["game_id"] # raw.rows[2]["game_id"]
    /\ Len(prepared.rows) = 1

\* C18: the team_stats mapper sets total_yards of every row to
\* passing_yards + rushing_yards with a null operand read as 0; 250 and 80
\* give 330
C18_TotalYards ==
    (/\ phase = "prepared"
     /\ kind = "team_stats"
     /\ {"passing_yards", "rushing_yards"} \subseteq raw.cols
     /\ IsTable(prepared)) =>
        /\ "total_yards" \in prepared.cols
        /\ Len(prepared.rows) = Len(raw.rows)
        /\ \A j \in 1..Len(prepared.rows) :
             /\ prepared.rows[j]["total_yards"]
                  = IntV(NullAsZero(raw.rows[j]["passing_yards"])
                         + NullAsZero(raw.rows[j]["rushing_yards"]))
             /\ (/\ raw.rows[j]["passing_yards"] = IntV(250)
                 /\ raw.rows[j]["rushing_yards"] = IntV(80))
                => prepared.rows[j]["total_yards"] = IntV(330)

C18_Witness ==
    /\ phase = "prepared"
    /\ kind = "team_stats"
    /\ {"passing_yards", "rushing_yards", "total_yards"} \subseteq raw.cols
    /\ IsTable(prepared)
    /\ Len(raw.rows) = 2
    /\ raw.rows[1]["passing_yards"] = IntV(250)
    /\ raw.rows[1]["rushing_yards"] = IntV(80)
    /\ prepared.rows[1]["total_yards"] = IntV(330)
    /\ IsNull(raw.rows[2]["passing_yards"])
    /\ prepared.rows[2]["total_yards"] = IntV(80)

RECURSIVE SumNullAsZero(_, _)
SumNullAsZero(r, cols) ==
    IF cols = {} THEN 0
    ELSE LET c == CHOOSE x \in cols : TRUE
         IN NullAsZero(r[c]) + SumNullAsZero(r, cols \ {c})

\* C19: the team_stats mapper sets turnovers of every row to the sum of
\* those of passing_interceptions, rushing_fumbles_lost and
\* sack_fumbles_lost that the input has, nulls read as 0; with none of the
\* three it computes no turnovers column (one of the input passes through)
C19_Turnovers ==
    (/\ phase = "prepared"
     /\ kind = "team_stats"
     /\ IsTable(prepared)) =>
        LET present == {"passing_interceptions", "rushing_fumbles_lost",
                        "sack_fumbles_lost"} \cap raw.cols
        IN IF present # {}
           THEN /\ "turnovers" \in prepared.cols
                /\ Len(prepared.rows) = Len(raw.rows)
                /\ \A j \in 1..Len(prepared.rows) :
                     prepared.rows[j]["turnovers"]
                       = IntV(SumNullAsZero(raw.rows[j], present))
           ELSE /\ "turnovers" \in prepared.cols <=> "turnovers" \in raw.cols
                /\ "turnovers" \in prepared.cols =>
                     \A j \in 1..Len(prepared.rows) :
                        prepared.rows[j]["turnovers"] = raw.rows[j]["turnovers"]

C19_Witness ==
    /\ phase = "prepared"
    /\ kind = "team_stats"
    /\ IsTable(prepared)
    /\ {"passing_interceptions", "rushing_fumbles_lost", "sack_fumbles_lost",
        "turnovers"} \subseteq raw.cols
    /\ Len(raw.rows) = 2
    /\ prepared.rows[1]["turnovers"] = IntV(7)
    /\ IsNull(raw.rows[2]["rushing_fumbles_lost"])
    /\ prepared.rows[2]["turnovers"] = IntV(5)

\* the integer-cast columns of each mapper
IntColsOf(k) ==
    CASE k = "play_by_play" -> PbpIntColumns
      [] k = "player_stats" -> PlayerStatsIntCols
      [] k = "players" -> PlayersIntCols
      [] k = "schedules" -> SchedulesIntCols
      [] k = "rosters" -> RostersIntCols
      [] k = "teams" -> {}
      [] k = "team_stats" -> TeamStatsIntCols

\* the column whose nulls or duplicates make a mapper drop rows
RowFilterCols(k) ==
    CASE k = "play_by_play" -> {"play_id"}
      [] k = "player_stats" -> {"player_id"}
      [] k \in {"players", "rosters"} -> {"gsis_id"}
      [] OTHER -> {}

\* the integer-cast columns of the output that are input columns (and not
\* recomputed by the mapper)
CastedInputCols ==
    (IntColsOf(kind) \cap raw.cols \cap prepared.cols)
        \ {"total_yards", "turnovers"}

\* a cell before and after the non-strict cast: an integer that fits 32
\* bits is kept, a value out of range or a non-numeric text becomes null,
\* a numeric text becomes an integer
CastKeepsOrNulls(before, after) ==
    /\ IsInt(before) => after = before
    /\ IsBig(before) => after = Null
    /\ IsNull(before) => after = Null
    /\ (IsStr(before) /\ before.str \notin DOMAIN NumericStrings) => after = Null
    /\ (IsStr(before) /\ before.str \in DOMAIN NumericStrings) => IsInt(after)

\* C20: the integer cast of every mapper is non-strict: it keeps a value
\* that fits a signed 32-bit integer, turns a value out of range or a
\* non-numeric value into null, raises nothing and keeps the number of rows
C20_NonStrictCast ==
    (/\ phase = "prepared"
     /\ IsTable(prepared)
     /\ CastedInputCols # {}) =>
        IF RowFilterCols(kind) \cap raw.cols = {}
        THEN /\ Len(prepared.rows) = Len(raw.rows)
             /\ \A j \in 1..Len(prepared.rows) : \A c \in CastedInputCols :
                    CastKeepsOrNulls(raw.rows[j][c], prepared.rows[j][c])
        ELSE \A j \in 1..Len(prepared.rows) :
                \E x \in 1..Len(raw.rows) : \A c \in CastedInputCols :
                    CastKeepsOrNulls(raw.rows[x][c], prepared.rows[j][c])

C20_Witness ==
    /\ phase = "prepared"
    /\ kind = "team_stats"
    /\ IsTable(prepared)
    /\ "points" \in raw.cols
    /\ Len(raw.rows) = 2
    /\ IsBig(raw.rows[1]["points"])
    /\ IsNull(prepared.rows[1]["points"])
    /\ raw.rows[2]["points"] = IntV(3)
    /\ prepared.rows[2]["points"] = IntV(3)

\* ------------------------------------------------------------------------
\* Properties of the constructor, query and the remote table
\* ------------------------------------------------------------------------
RowSet(s) == {s[x] : x \in DOMAIN s}

\* positions of the stored rows that equal every (column, value) pair
MatchingPositions(eqs) ==
    {j \in DOMAIN store : \A p \in eqs : store[j][p[1]] = p[2]}

\* C13: query returns exactly the rows of the table that equal every
\* (column, value) pair of filters, and an empty table, without raising,
\* when no row matches
C13_ExactMatches ==
    pc = "queried" =>
        /\ RowSet(data) = {store[j] : j \in MatchingPositions(filters.eqs)}
        /\ Len(data) = Cardinality(MatchingPositions(filters.eqs))

\* C14: query with no filters ({} or None) returns all rows of the table,
\* whatever its size, also above the single-request row cap of the store
C14_AllRowsNoFilter ==
    (pc = "queried" /\ filters.eqs = {}) => data = store

\* C15 as stated: a connection or configuration failure raised during the
\* constructor, query or upload_dataframe leaves the operation as an
\* exception, never with a normal return
C15_FailurePropagates ==
    \A f \in failures :
        /\ f.op = "init" => pc = "init_raised"
        /\ f.op = "query" => pc = "query_raised"
        /\ (f.op = "upload" /\ f.error \in ConnectionErrors) => pc = "raised"

\* C15, amended: a failure raised during the constructor or query leaves
\* the operation as an exception; a failure raised by a chunk of
\* upload_dataframe, a connection failure included, is caught: the call
\* goes on, records the chunk's start offset and the message, and returns
\* the summary with that entry
C15_PropagatesOrRecorded ==
    \A f \in failures :
        /\ f.op = "init" => pc = "init_raised"
        /\ f.op = "query" => pc = "query_raised"
        /\ f.op = "upload" =>
            /\ pc \in {"loop", "executing", "done"}
            /\ \E j \in 1..Len(errors) :
                 errors[j] = [batch |-> f.offset, error |-> f.error]
            /\ pc = "done" =>
                 /\ summary.errors >= 1
                 /\ \E j \in 1..Len(summary.error_details) :
                      summary.error_details[j]
                        = [batch |-> f.offset, error |-> f.error]

C15_Witness ==
    /\ pc = "done"
    /\ Len(sent) >= 2
    /\ outcomes[1] = "fail"
    /\ outcomes[2] = "ok"
    /\ \E f \in failures :
        f.op = "upload" /\ f.error \in ConnectionErrors /\ f.offset = 0

\* C16: with upsert, uploading the same table a second time with no failed
\* chunk leaves the remote table as the first upload left it, and after a
\* second upload with changed non-key values every primary key of the
\* table has exactly one stored row, which carries the second upload's
\* values
C16_UpsertIdempotent ==
    (/\ pc = "done"
     /\ run = 2
     /\ upsert
     /\ batch_size >= 1
     /\ firstRun.errors = 0
     /\ errors = <<>>) =>
        /\ KeysOf(df) = KeysOf(firstRun.df)
        /\ df = firstRun.df => store = firstRun.store
        /\ \A x \in DOMAIN df :
             /\ Cardinality({j \in DOMAIN store : store[j].key = df[x].key}) = 1
             /\ \E j \in DOMAIN store : store[j] = df[x]

C16_Witness ==
    /\ pc = "done"
    /\ run = 2
    /\ upsert
    /\ batch_size = 2
    /\ Len(df) = 5
    /\ firstRun.errors = 0
    /\ errors = <<>>
    /\ df # firstRun.df
    /\ store # firstRun.store

\* a stored row with the key of a row of rows gives way to it; the rows
\* with a key not yet stored are added
Put(st, rows) ==
    LET given == {rows[x].key : x \in DOMAIN rows}
        held == {st[j].key : j \in DOMAIN st}
    IN [j \in 1..Len(st) |->
          IF st[j].key \in given
          THEN rows[CHOOSE x \in DOMAIN rows : rows[x].key = st[j].key]
          ELSE st[j]]
       \o SelectSeq(rows, LAMBDA r : r.key \notin held)

\* the table before the call plus the rows of those of the first j chunks
\* that the store wrote
RECURSIVE WrittenUpTo(_)
WrittenUpTo(j) ==
    IF j = 0 THEN storeBefore
    ELSE IF written[j] THEN Put(WrittenUpTo(j - 1), sent[j].rows)
         ELSE WrittenUpTo(j - 1)

C21_NeverFails ==
    phase = "prepared" =>
        /\ IsTable(prepared)
        /\ raw.cols = {} => prepared.cols = {}

\* the games of the schedules in which team t plays at home (side "home")
\* or away (side "away") in the season and week of the stats row r
GamesOf(r, side) ==
    {j \in 1..Len(schedules.rows) :
        /\ schedules.rows[j]["season"] = r["season"]
        /\ schedules.rows[j]["week"] = r["week"]
        /\ schedules.rows[j][side \o "_team"] = r["team"]}

\* no team has two games in one week of a season
OneGamePerTeamWeek ==
    \A r \in StatsRows : Cardinality(GamesOf(r, "home") \cup GamesOf(r, "away")) <= 1

ExpectedPoints(r) ==
    IF GamesOf(r, "home") # {}
    THEN schedules.rows[CHOOSE j \in GamesOf(r, "home") : TRUE]["home_score"]
    ELSE IF GamesOf(r, "away") # {}
    THEN schedules.rows[CHOOSE j \in GamesOf(r, "away") : TRUE]["away_score"]
    ELSE Null

\* C22: load_team_stats keeps every stats row exactly once, in order, with
\* its columns unchanged, and adds points: the home_score of the game of the
\* row's season and week in which the team is the home team, the away_score
\* when it is the away team, null when there is no such game
C22_PointsJoin ==
    (phase = "joined" /\ OneGamePerTeamWeek) =>
        /\ prepared.cols = raw.cols \cup {"points"}
        /\ Len(prepared.rows) = Len(raw.rows)
        /\ \A j \in 1..Len(raw.rows) :
             /\ \A c \in raw.cols : prepared.rows[j][c] = raw.rows[j][c]
             /\ prepared.rows[j]["points"] = ExpectedPoints(raw.rows[j])

C22_Witness ==
    /\ phase = "joined"
    /\ OneGamePerTeamWeek
    /\ Len(schedules.rows) = 2
    /\ Len(raw.rows) = 2
    /\ raw.rows[1]["team"] # raw.rows[2]["team"]
    /\ prepared.rows[1]["points"] = IntV(14)
    /\ prepared.rows[2]["points"] = IntV(21)

\* ------------------------------------------------------------------------
\* Further properties of the client
\* ------------------------------------------------------------------------
\* C23: a query call issues exactly one request and returns only after the
\* answer to that request has arrived; whatever the answer holds, also a
\* full page or a failure, no second request follows
C23_OneRoundTrip ==
    /\ pc = "querying" =>
        /\ Len(sent) = 1
        /\ inflight = {sent[1]}
        /\ outcomes = <<>>
    /\ pc \in {"queried", "query_raised"} =>
        /\ Len(sent) = 1
        /\ sent[1] = QueryRequest(IF filters.given THEN filters.eqs ELSE {})
        /\ inflight = {}
        /\ Len(outcomes) = 1
    /\ pc = "queried" => outcomes = <<"ok">>

C23_Witness ==
    /\ pc = "queried"
    /\ Len(data) = RowCap
    /\ Len(store) > RowCap
    /\ Len(sent) = 1

\* ------------------------------------------------------------------------
\* TeamAnalytics.get_offensive_rankings / get_defensive_rankings
\* ------------------------------------------------------------------------
Metrics == {"epa_per_play", "yards", "points"}

\* a play: the team in possession, the defending team, its epa and yards
Play(o, d, e, y) == [posteam |-> o, defteam |-> d, epa |-> e, yards_gained |-> y]

Plays ==
    {Play(StrV("KC"), StrV("SF"), e, y) : e \in {-1, 2}, y \in {0, 10}}
    \cup {Play(StrV("SF"), StrV("KC"), e, y) : e \in {-1, 2}, y \in {0, 10}}
    \cup {Play(Null, Null, 2, 10)}

PlayTables == UNION {[1..n -> Plays] : n \in 0..MaxTableRows}

\* the column the ranking groups by
GroupColumn(w) == IF w = "offense" THEN "posteam" ELSE "defteam"

RECURSIVE SumOf(_, _)
SumOf(rows, c) ==
    IF rows = <<>> THEN 0 ELSE Head(rows)[c] + SumOf(Tail(rows), c)

\* group_by(team).agg([count, epa mean, yards sum, yards mean]) of the rows
\* of one team; a mean is kept as its numerator and denominator
TeamAgg(rows, c, t) ==
    LET mine == SelectSeq(rows, LAMBDA r : r[c] = t)
    IN [team |-> t,
        plays |-> Len(mine),
        epa_sum |-> SumOf(mine, "epa"),
        total_yards |-> SumOf(mine, "yards_gained")]

\* filter(team is not null).group_by(team).agg(...): one row per team
Groups(rows, c) ==
    {TeamAgg(rows, c, t) : t \in {rows[j][c] : j \in DOMAIN rows} \ {Null}}

\* a.epa_per_play <= b.epa_per_play, the means compared as fractions
EpaLeq(a, b) == a.epa_sum * b.plays <= b.epa_sum * a.plays

\* .sort("epa_per_play", descending=True) for the offense,
\* .sort("epa_per_play") for the defense; the metric argument is not read
SortedByEpa(seq, w) ==
    \A j \in 1..(Len(seq) - 1) :
        IF w = "offense" THEN EpaLeq(seq[j + 1], seq[j])
        ELSE EpaLeq(seq[j], seq[j + 1])

\* the tables the ranking may return: the groups in an order sorted by
\* epa_per_play, teams of equal epa_per_play in any order
Rankings(rows, w) ==
    LET g == Groups(rows, GroupColumn(w))
    IN {seq \in [1..Cardinality(g) -> g] :
          /\ \A j, k \in DOMAIN seq : seq[j] = seq[k] => j = k
          /\ SortedByEpa(seq, w)}

\* pbp = self.client.query("play_by_play", {"season": season})
RankCall ==
    /\ apc = "idle"
    /\ which' \in {"offense", "defense"}
    /\ metric' \in Metrics
    /\ pbp' \in PlayTables
    /\ apc' = "queried"
    /\ UNCHANGED ranking
    /\ UNCHANGED notAna

\* the aggregation is computed, sorted and returned
RankReturn ==
    /\ apc = "queried"
    /\ ranking' \in Rankings(pbp, which)
    /\ apc' = "returned"
    /\ UNCHANGED <<which, metric, pbp>>
    /\ UNCHANGED notAna

AnalyticsNext == RankCall \/ RankReturn

AnalyticsSpec == Init /\ [][AnalyticsNext]_vars

\* the metrics the returned rows hold a value of: they hold no points
HasMetric(m) == m \in {"epa_per_play", "yards"}

\* a is ranked no lower than b under metric m: more is better for the
\* offense, less is better for the defense
RankedBefore(a, b, m, w) ==
    LET leq == IF m = "yards" THEN a.total_yards <= b.total_yards
               ELSE EpaLeq(a, b)
        geq == IF m = "yards" THEN b.total_yards <= a.total_yards
               ELSE EpaLeq(b, a)
    IN IF w = "offense" THEN geq ELSE leq

\* C24: the rankings are ordered by the metric passed in the metric
\* argument: "epa_per_play", "yards" or "points"
C24_RankedByMetric ==
    apc = "returned" =>
        \A j \in 1..(Len(ranking) - 1) :
            /\ HasMetric(metric)
            /\ RankedBefore(ranking[j], ranking[j + 1], metric, which)

\* ------------------------------------------------------------------------
\* main of scripts/load_data.py
\* ------------------------------------------------------------------------
\* choices of --data-types
DataTypeChoices ==
    {"pbp", "player_stats", "team_stats", "rosters", "schedules", "reference",
     "all"}

\* nargs="+": at least one argument, in any order, repetitions allowed
ArgLists == UNION {[1..n -> DataTypeChoices] : n \in 1..MaxArgs}

\* the order of the if statements of main
StepOrder ==
    <<"reference", "pbp", "player_stats", "team_stats", "rosters", "schedules">>

\* if "all" in data_types: data_types = [the six data types]
Expand_KeepAll(args) == {args[j] : j \in DOMAIN args}
Expand(args) ==
    IF \E j \in DOMAIN args : args[j] = "all"
    THEN {"pbp", "player_stats", "team_stats", "rosters", "schedules",
          "reference"}
    ELSE {args[j] : j \in DOMAIN args}

\* how a load step ends: it returns, with every chunk uploaded or with
\* failed chunks in its summary, or it raises
StepReturns == {"uploaded", "chunks_failed"}

\* args = parser.parse_args(), up to the try around the client
MainStart ==
    /\ mpc = "start"
    /\ \E a \in ArgLists :
        /\ argv' = a
        /\ data_types' = Expand(a)
    /\ mpc' = "connecting"
    /\ UNCHANGED <<nextStep, ran>>
    /\ UNCHANGED notMain

\* get_settings() and SupabaseClient() succeed
MainConnect ==
    /\ mpc = "connecting"
    /\ mpc' = "loading"
    /\ UNCHANGED <<argv, data_types, nextStep, ran>>
    /\ UNCHANGED notMain

\* get_settings() or SupabaseClient() raises: message, return
MainConnectFail ==
    /\ mpc = "connecting"
    /\ mpc' = "not_connected"
    /\ UNCHANGED <<argv, data_types, nextStep, ran>>
    /\ UNCHANGED notMain

\* an if statement whose data type was not selected
SkipStep ==
    /\ mpc = "loading"
    /\ nextStep <= Len(StepOrder)
    /\ StepOrder[nextStep] \notin data_types
    /\ nextStep' = nextStep + 1
    /\ UNCHANGED <<mpc, argv, data_types, ran>>
    /\ UNCHANGED notMain

\* a selected load step runs and returns; failed chunks are only printed
RunStep ==
    /\ mpc = "loading"
    /\ nextStep <= Len(StepOrder)
    /\ StepOrder[nextStep] \in data_types
    /\ \E o \in StepReturns :
        ran' = Append(ran, [step |-> StepOrder[nextStep], outcome |-> o])
    /\ nextStep' = nextStep + 1
    /\ UNCHANGED <<mpc, argv, data_types>>
    /\ UNCHANGED notMain

\* a selected load step raises: the except of main prints and main ends
StepRaise_Continue ==
    /\ mpc = "loading"
    /\ nextStep <= Len(StepOrder)
    /\ StepOrder[nextStep] \in data_types
    /\ ran' = Append(ran, [step |-> StepOrder[nextStep], outcome |-> "raised"])
    /\ nextStep' = nextStep + 1
    /\ UNCHANGED <<mpc, argv, data_types>>
    /\ UNCHANGED notMain
StepRaise ==
    /\ mpc = "loading"
    /\ nextStep <= Len(StepOrder)
    /\ StepOrder[nextStep] \in data_types
    /\ ran' = Append(ran, [step |-> StepOrder[nextStep], outcome |-> "raised"])
    /\ mpc' = "aborted"
    /\ UNCHANGED <<argv, data_types, nextStep>>
    /\ UNCHANGED notMain

\* after the last if statement: print "Data loading complete!"
MainComplete ==
    /\ mpc = "loading"
    /\ nextStep > Len(StepOrder)
    /\ mpc' = "complete"
    /\ UNCHANGED <<argv, data_types, nextStep, ran>>
    /\ UNCHANGED notMain

MainNext ==
    \/ MainStart \/ MainConnect \/ MainConnectFail
    \/ SkipStep \/ RunStep \/ StepRaise \/ MainComplete

MainSpec == Init /\ [][MainNext]_vars

\* the names of the steps run so far, in the order they ran
StepsRun == [j \in 1..Len(ran) |-> ran[j].step]

\* the data types the arguments select
Selected ==
    IF \E j \in DOMAIN argv : argv[j] = "all"
    THEN {StepOrder[j] : j \in DOMAIN StepOrder}
    ELSE {argv[j] : j \in DOMAIN argv}

\* the selected steps in the fixed order
SelectedInOrder == SelectSeq(StepOrder, LAMBDA t : t \in Selected)

\* C25: the selected load steps run in the fixed order reference, pbp,
\* player_stats, team_stats, rosters, schedules, each at most once,
\* whatever the order or repetition of the arguments; a run that gets to
\* its end has run every selected step, all six when "all" is an argument
C25_FixedOrder ==
    mpc # "start" =>
        /\ Len(StepsRun) <= Len(SelectedInOrder)
        /\ StepsRun = SubSeq(SelectedInOrder, 1, Len(StepsRun))
        /\ \A j, k \in 1..Len(ran) : ran[j].step = ran[k].step => j = k
        /\ mpc = "complete" =>
            /\ StepsRun = SelectedInOrder
            /\ (\E j \in DOMAIN argv : argv[j] = "all") => StepsRun = StepOrder

C25_Witness ==
    /\ mpc = "complete"
    /\ argv = <<"schedules", "reference">>
    /\ StepsRun = <<"reference", "schedules">>

\* C26: when the client cannot be constructed no load step runs; when a
\* load step raises, no later step runs and the completion message is not
\* printed; failed chunks do not raise: such a run still runs every
\* remaining selected step and prints the completion message
C26_AbortOnRaise ==
    /\ mpc \in {"connecting", "not_connected"} => ran = <<>>
    /\ \A j \in 1..Len(ran) :
         ran[j].outcome = "raised" => (j = Len(ran) /\ mpc = "aborted")
    /\ mpc = "aborted" =>
         (ran # <<>> /\ ran[Len(ran)].outcome = "raised")
    /\ (/\ mpc = "loading"
        /\ nextStep > Len(StepOrder)) => StepsRun = SelectedInOrder
    /\ mpc = "complete" =>
         /\ StepsRun = SelectedInOrder
         /\ \A j \in 1..Len(ran) : ran[j].outcome \in StepReturns

C26_Witness ==
    /\ mpc = "complete"
    /\ Len(ran) = Len(StepOrder)
    /\ ran[2].outcome = "chunks_failed"
    /\ ran[3].outcome = "uploaded"

\* ------------------------------------------------------------------------
\* Further properties of upload_dataframe
\* ------------------------------------------------------------------------
\* C27: a returned summary with errors = 0 has uploaded = total_rows, for
\* every batch_size for which the call returns, batch_size <= 0 included
C27_NoErrorMeansAllUploaded ==
    (pc = "done" /\ summary.errors = 0) =>
        summary.uploaded = summary.total_rows

\* ------------------------------------------------------------------------
\* The pagination loop of scripts/test_passing_leaders.py
\* ------------------------------------------------------------------------
PageSize == 1000

\* row caps of the remote store: below, at and above the page size
RowCaps == {1, 500, PageSize - 1, PageSize, PageSize + 1, 2 * PageSize}

\* numbers of matching rows of the table
MatchCounts ==
    {0, 1, 499, 500, 501, PageSize - 1, PageSize, PageSize + 1,
     2 * PageSize - 1, 2 * PageSize, 2 * PageSize + 1, 2500, 3 * PageSize}

\* .range(lo, hi).execute(): the rows lo..hi (0-based, inclusive) of the
\* matching rows in the store's order, cut at the store's row cap
RangeResponse(rows, lo, hi, c) ==
    SubSeq(rows, lo + 1, Min(Min(hi + 1, lo + c), Len(rows)))

\* the script starts: a table and a row cap that stay as they are
PageStart ==
    /\ ppc = "start"
    /\ \E n \in MatchCounts : matching' = [k \in 1..n |-> k]
    /\ cap' \in RowCaps
    /\ offset' = 0
    /\ all_data' = <<>>
    /\ ppc' = "loop"
    /\ UNCHANGED page
    /\ UNCHANGED notPage

\* result = ....range(offset, offset + page_size - 1).execute()
FetchPage ==
    /\ ppc = "loop"
    /\ page' = RangeResponse(matching, offset, offset + PageSize - 1, cap)
    /\ ppc' = "fetched"
    /\ UNCHANGED <<cap, matching, offset, all_data>>
    /\ UNCHANGED notPage

\* the rest of the loop body: break on an empty page, extend, advance,
\* break on a short page
HandlePage ==
    /\ ppc = "fetched"
    /\ IF page = <<>>
       THEN /\ ppc' = "stopped"
            /\ UNCHANGED <<all_data, offset>>
       ELSE /\ all_data' = all_data \o page
            /\ offset' = offset + PageSize
            /\ ppc' = IF Len(page) < PageSize THEN "stopped" ELSE "loop"
    /\ UNCHANGED <<cap, matching, page>>
    /\ UNCHANGED notPage

PageNext == PageStart \/ FetchPage \/ HandlePage

PageSpec == Init /\ [][PageNext]_vars

\* C28: when the loop has stopped, all_data holds every matching row
\* exactly once, for every row cap of the store, also one below the page
\* size
C28_AllRowsOnce ==
    ppc = "stopped" => all_data = matching

\* ------------------------------------------------------------------------
\* Two upload_dataframe runs racing on one remote table, both with upsert
\* ------------------------------------------------------------------------
Runs == {1, 2}

RaceSizes == 1..(MaxTableRows + 1)

RaceBatchSizes == {1, 2}

\* a row of a racing run: the key and two other columns, both carrying the
\* number of the run that wrote this version of the row
RaceRow(k, p) == [key |-> k, name |-> p, team |-> p]

\* the table of a run: n rows with consecutive keys after key number first
RaceTable(first, n, p) == [k \in 1..n |-> RaceRow(first + k, p)]

\* both runs are called: run 1 with keys from 1, run 2 with keys from 1 or
\* 2, so that the tables overlap
RaceStart ==
    /\ \A p \in Runs : rpc[p] = "idle"
    /\ \E n1 \in RaceSizes, n2 \in RaceSizes, f \in {0, 1} :
        rdf' = [p \in Runs |->
                  IF p = 1 THEN RaceTable(0, n1, 1) ELSE RaceTable(f, n2, 2)]
    /\ rbatch' \in [Runs -> RaceBatchSizes]
    /\ ri' = [p \in Runs |-> 0]
    /\ rpc' = [p \in Runs |-> "loop"]
    /\ UNCHANGED rstore
    /\ UNCHANGED notRace

\* one iteration of run p with an acknowledged chunk: the store applies
\* the chunk's upsert request as one statement
RaceChunk_ColumnWise(p) ==
    /\ rpc[p] = "loop"
    /\ RangeHasNext(ri[p], Len(rdf[p]), rbatch[p])
    /\ LET rows == Slice(rdf[p], ri[p], ri[p] + rbatch[p])
           after == Upsert(rstore, rows)
       IN rstore' \in {after,
                       [j \in DOMAIN after |->
                          IF j \in DOMAIN rstore
                          THEN [after[j] EXCEPT !.team = rstore[j].team]
                          ELSE after[j]]}
    /\ ri' = [ri EXCEPT ![p] = NextOffset(ri[p], rbatch[p])]
    /\ UNCHANGED <<rpc, rdf, rbatch>>
    /\ UNCHANGED notRace
RaceChunk(p) ==
    /\ rpc[p] = "loop"
    /\ RangeHasNext(ri[p], Len(rdf[p]), rbatch[p])
    /\ rstore' = Apply(rstore,
                       Request(ri[p], Slice(rdf[p], ri[p], ri[p] + rbatch[p]), TRUE))
    /\ ri' = [ri EXCEPT ![p] = NextOffset(ri[p], rbatch[p])]
    /\ UNCHANGED <<rpc, rdf, rbatch>>
    /\ UNCHANGED notRace

\* run p leaves its loop and returns
RaceReturn(p) ==
    /\ rpc[p] = "loop"
    /\ ~RangeHasNext(ri[p], Len(rdf[p]), rbatch[p])
    /\ rpc' = [rpc EXCEPT ![p] = "done"]
    /\ UNCHANGED <<rdf, rbatch, ri, rstore>>
    /\ UNCHANGED notRace

RaceNext ==
    \/ RaceStart
    \/ \E p \in Runs : RaceChunk(p)
    \/ \E p \in Runs : RaceReturn(p)

RaceSpec == Init /\ [][RaceNext]_vars

\* the keys of the two tables
RaceKeys == UNION {{rdf[p][j].key : j \in DOMAIN rdf[p]} : p \in Runs}

\* C29: when both runs have returned, with no failed chunk, the remote
\* table has exactly one row for every key of either table and no other
\* row, and each row is the whole row of one run that holds its key, never
\* columns of both; different keys may hold rows of different runs
C29_WholeRowPerKey ==
    (\A p \in Runs : rpc[p] = "done") =>
        /\ \A k \in RaceKeys :
             Cardinality({j \in DOMAIN rstore : rstore[j].key = k}) = 1
        /\ \A j \in DOMAIN rstore :
             \E p \in Runs : \E x \in DOMAIN rdf[p] : rstore[j] = rdf[p][x]

C29_Witness ==
    /\ \A p \in Runs : rpc[p] = "done"
    /\ \E j, k \in DOMAIN rstore :
        /\ rstore[j] = RaceRow(rstore[j].key, 1)
        /\ rstore[k] = RaceRow(rstore[k].key, 2)
        /\ \A p \in Runs : \E x, y \in DOMAIN rdf[p] :
             rdf[p][x].key = rstore[j].key /\ rdf[p][y].key = rstore[k].key

\* ------------------------------------------------------------------------
\* get_settings (src/utils/config.py) and the constructor's use of it
\* ------------------------------------------------------------------------
\* a Settings instance: which construction it is, and the value it read
SettingsOf(n, v) == [id |-> n, supabase_url |-> v]

IsSettings(x) == "id" \in DOMAIN x

\* the url argument of SupabaseClient: None or an explicit value
UrlArgs == {"None", "https://explicit"}

\* @lru_cache() get_settings(): a cached instance is returned as it is;
\* otherwise Settings() reads the environment, and its instance is cached
\* unless it raises.  The outcome: the cache, the two counters, the result
GetSettings_NoCache(c, v, n, l) ==
    IF v = "unset"
    THEN [cache |-> c, reads |-> n + 1, loaded |-> l, result |-> SettingsError]
    ELSE [cache |-> SettingsOf(n + 1, v), reads |-> n + 1, loaded |-> l + 1,
          result |-> SettingsOf(n + 1, v)]
GetSettings(c, v, n, l) ==
    IF IsSettings(c)
    THEN [cache |-> c, reads |-> n, loaded |-> l, result |-> c]
    ELSE IF v = "unset"
    THEN [cache |-> c, reads |-> n + 1, loaded |-> l, result |-> SettingsError]
    ELSE [cache |-> SettingsOf(n + 1, v), reads |-> n + 1, loaded |-> l + 1,
          result |-> SettingsOf(n + 1, v)]

\* self.url = url or settings.supabase_url
ClientUrl(arg, settings) ==
    IF arg # "None" THEN arg ELSE settings.supabase_url

\* the environment is changed inside the process
SetEnv ==
    /\ \E v \in EnvValues \ {env} : env' = v
    /\ UNCHANGED <<cache, reads, loaded, got, firstGot, made>>
    /\ UNCHANGED notCfg

\* some caller calls get_settings()
CallGetSettings ==
    /\ reads < MaxReads
    /\ LET o == GetSettings(cache, env, reads, loaded)
       IN /\ cache' = o.cache
          /\ reads' = o.reads
          /\ loaded' = o.loaded
          /\ got' = o.result
          /\ firstGot' = IF IsSettings(firstGot) THEN firstGot
                          ELSE IF IsSettings(o.result) THEN o.result
                          ELSE firstGot
    /\ UNCHANGED <<env, made>>
    /\ UNCHANGED notCfg

\* SupabaseClient(url): get_settings() is called whatever the arguments
\* are; when it raises, so does the constructor
NewClient ==
    /\ reads < MaxReads
    /\ \E a \in UrlArgs :
        LET o == GetSettings(cache, env, reads, loaded)
        IN /\ cache' = o.cache
           /\ reads' = o.reads
           /\ loaded' = o.loaded
           /\ got' = o.result
           /\ firstGot' = IF IsSettings(firstGot) THEN firstGot
                           ELSE IF IsSettings(o.result) THEN o.result
                           ELSE firstGot
           /\ made' = IF IsSettings(o.result)
                      THEN [arg |-> a, url |-> ClientUrl(a, o.result)]
                      ELSE [arg |-> a, error |-> "validation error"]
    /\ UNCHANGED env
    /\ UNCHANGED notCfg

SettingsNext == SetEnv \/ CallGetSettings \/ NewClient

SettingsSpec == Init /\ [][SettingsNext]_vars

\* C30 as stated: the configuration is read from the environment at most
\* once, every call returns the instance of the first call, a client made
\* without explicit url uses the values read by the first call, and an
\* explicit url overrides them
C30_ReadOnce ==
    /\ reads <= 1
    /\ IsSettings(got) => got = firstGot
    /\ ("url" \in DOMAIN made /\ made.arg = "None") =>
          made.url = firstGot.supabase_url
    /\ ("url" \in DOMAIN made /\ made.arg # "None") => made.url = made.arg

\* C30, amended: the configuration is read successfully at most once: the
\* first call that succeeds caches its instance, every later call returns
\* that instance without reading the environment, a client made without
\* explicit url uses its values whatever the environment holds by then,
\* and an explicit url overrides them; a call that raises caches nothing,
\* so the calls before the first success each read the environment
C30_CachedAfterSuccess ==
    /\ loaded <= 1
    /\ loaded = 1 <=> IsSettings(cache)
    /\ IsSettings(cache) => (cache = firstGot /\ cache.id = reads)
    /\ IsSettings(got) => got = firstGot
    /\ ~IsSettings(cache) => (~IsSettings(got) /\ ~IsSettings(firstGot))
    /\ ("url" \in DOMAIN made /\ made.arg = "None") =>
          made.url = firstGot.supabase_url
    /\ ("url" \in DOMAIN made /\ made.arg # "None") => made.url = made.arg

C30_Witness ==
    /\ reads = 2
    /\ IsSettings(cache)
    /\ env \notin {"unset", cache.supabase_url}
    /\ "url" \in DOMAIN made
    /\ made.arg = "None"
    /\ made.url = cache.supabase_url

====
